---- MODULE Spec2Model ----
(***************************************************************************)
(* Model of the Finalize estimate worker (src/src/index.js): the pricing   *)
(* engine, the form validation and the submission handler with its         *)
(* external record store.                                                  *)
(*                                                                         *)
(* JavaScript values are records [t, v]: t is the value's type and v a     *)
(* sequence of strings holding its content (the characters of a string,    *)
(* the element names of an array, the literal of a boolean or a number).   *)
(***************************************************************************)
EXTENDS Integers, Sequences, FiniteSets, TLC

(***************************************************************************)
(* Bounds                                                                  *)
(***************************************************************************)
MaxFeatures == 3      \* longest selectedFeatures list given to the pricing engine
MaxServices == 1      \* longest selectedServices list given to the pricing engine
MaxReq == 2           \* requests the worker serves, possibly concurrently

(***************************************************************************)
(* JavaScript values                                                       *)
(***************************************************************************)
Undefined == [t |-> "undefined", v |-> <<>>]
Null == [t |-> "null", v |-> <<>>]
Bool(b) == [t |-> "boolean", v |-> IF b THEN <<"true">> ELSE <<"false">>]
Number(lit) == [t |-> "number", v |-> <<lit>>]
Str(chars) == [t |-> "string", v |-> chars]
Arr(elems) == [t |-> "array", v |-> elems]
Obj == [t |-> "object", v |-> <<>>]

\* ToBoolean: undefined, null, false, 0 and "" are falsy, everything else truthy
Truthy(x) ==
    CASE x.t = "undefined" -> FALSE
      [] x.t = "null" -> FALSE
      [] x.t = "boolean" -> x.v = <<"true">>
      [] x.t = "number" -> x.v # <<"0">>
      [] x.t = "string" -> x.v # <<>>
      [] OTHER -> TRUE

IsArray(x) == x.t = "array"

\* x.length: defined for arrays and strings, undefined otherwise
HasLength(x) == x.t \in {"array", "string"}
LengthOf(x) == Len(x.v)

(***************************************************************************)
(* Pricing configuration                                                   *)
(***************************************************************************)
PRICING ==
    [features |-> ("Authentication" :> 100 @@ "Payments" :> 100 @@
                   "SaaS Subscriptions" :> 100 @@ "File Uploads" :> 100 @@
                   "Notifications" :> 100),
     services |-> ("Security Audit & Fixes" :> 150 @@ "UI/UX Review" :> 150 @@
                   "Deploy to Production" :> 100),
     customRequestBase |-> 250,
     featureDiscountThreshold |-> 3,
     featureDiscountRatePercent |-> 10]

\* The PRICING object as the module holds it: a const binding of a mutable
\* object, read by calculatePricing
VARIABLE pricingObj

\* Property names every object literal inherits from Object.prototype; a
\* lookup of one of them on a catalog yields a function, not undefined.
InheritedNames == {"constructor"}

\* Values of the arithmetic in calculatePricing: a number, NaN, a string
\* (number + function concatenates), or the raw result of a catalog lookup.
NumV(n) == [k |-> "number", n |-> n]
NaNV == [k |-> "NaN", n |-> 0]
StrV == [k |-> "string", n |-> 0]
FunV == [k |-> "function", n |-> 0]
UndefV == [k |-> "undefined", n |-> 0]

\* catalog[name]: own property, inherited property, or undefined
Lookup(catalog, name) ==
    IF name \in DOMAIN catalog THEN NumV(catalog[name])
    ELSE IF name \in InheritedNames THEN FunV
    ELSE UndefV

TruthyV(p) == p.k \in {"function", "string"} \/ (p.k = "number" /\ p.n # 0)

\* a + b
Plus(a, b) ==
    IF a.k = "number" /\ b.k = "number" THEN NumV(a.n + b.n)
    ELSE IF a.k \in {"string", "function"} \/ b.k \in {"string", "function"} THEN StrV
    ELSE NaNV

\* a - b
Minus(a, b) ==
    IF a.k = "number" /\ b.k = "number" THEN NumV(a.n - b.n) ELSE NaNV

\* Math.round(a * PRICING.featureDiscountRate): nearest integer, halves up.
\* The catalog prices are multiples of 100, so the product is within one
\* ulp of an integer and the double rounding agrees with the exact one.
RoundRate(a) ==
    IF a.k = "number"
    THEN NumV((a.n * pricingObj.featureDiscountRatePercent + 50) \div 100)
    ELSE NaNV

\* names.forEach(name => { const price = catalog[name]; if (price) acc += price })
RECURSIVE SumPrices(_, _, _)
SumPrices(catalog, names, acc) ==
    IF names = <<>> THEN acc
    ELSE LET price == Lookup(catalog, Head(names))
         IN SumPrices(catalog, Tail(names),
                      IF TruthyV(price) THEN Plus(acc, price) ELSE acc)

\* the discount condition with > for >=
DiscountApplies_strict(selectedFeatures) ==
    /\ Truthy(selectedFeatures)
    /\ HasLength(selectedFeatures)
    /\ LengthOf(selectedFeatures) > pricingObj.featureDiscountThreshold

\* the discount condition with the threshold one too low
DiscountApplies_early(selectedFeatures) ==
    /\ Truthy(selectedFeatures)
    /\ HasLength(selectedFeatures)
    /\ LengthOf(selectedFeatures) >= pricingObj.featureDiscountThreshold - 1

\* selectedFeatures && selectedFeatures.length >= PRICING.featureDiscountThreshold
DiscountApplies(selectedFeatures) ==
    /\ Truthy(selectedFeatures)
    /\ HasLength(selectedFeatures)
    /\ LengthOf(selectedFeatures) >= pricingObj.featureDiscountThreshold

calculatePricing(selectedFeatures, selectedServices, hasCustomRequest) ==
    LET featuresTotal ==
            IF IsArray(selectedFeatures)
            THEN SumPrices(pricingObj.features, selectedFeatures.v, NumV(0))
            ELSE NumV(0)
        total1 == featuresTotal
        applies == DiscountApplies(selectedFeatures)
        discount == IF applies THEN RoundRate(featuresTotal) ELSE NumV(0)
        total2 == IF applies THEN Minus(total1, discount) ELSE total1
        total3 ==
            IF IsArray(selectedServices)
            THEN SumPrices(pricingObj.services, selectedServices.v, total2)
            ELSE total2
        total4 ==
            IF Truthy(hasCustomRequest)
            THEN Plus(total3, NumV(pricingObj.customRequestBase))
            ELSE total3
    IN [total |-> total4, discount |-> discount]

(***************************************************************************)
(* Validation                                                              *)
(***************************************************************************)
IsSpace(c) == c = " "

\* String.prototype.trim on a sequence of characters
RECURSIVE TrimLeft(_)
TrimLeft(s) == IF s # <<>> /\ IsSpace(Head(s)) THEN TrimLeft(Tail(s)) ELSE s

RECURSIVE TrimRight(_)
TrimRight(s) ==
    IF s # <<>> /\ IsSpace(s[Len(s)]) THEN TrimRight(SubSeq(s, 1, Len(s) - 1)) ELSE s

Trim(s) == TrimRight(TrimLeft(s))

\* /^[^\s@]+@[^\s@]+\.[^\s@]+$/.test(email)
isValidEmail(email) ==
    \E i \in 1..Len(email) : \E j \in 1..Len(email) :
        /\ 1 < i /\ i + 1 < j /\ j < Len(email)
        /\ email[i] = "@"
        /\ email[j] = "."
        /\ \A m \in 1..Len(email) : m # i => (~IsSpace(email[m]) /\ email[m] # "@")

\* new URL(url) succeeds.  Without a base the parser strips the surrounding
\* spaces and needs a scheme: a letter, then letters, digits, "+", "-" or ".",
\* then ":".  Over the alphabet used here ("a" a letter, ":", ".", "@", " ")
\* the scheme is never a special one and whatever follows it is an opaque
\* path, which always parses.
isValidUrl(url) ==
    LET s == Trim(url)
    IN \E i \in 1..Len(s) :
        /\ i > 1
        /\ s[i] = ":"
        /\ s[1] = "a"
        /\ \A m \in 2..(i - 1) : s[m] \in {"a", "."}

MsgUrlRequired == "App URL is required"
MsgUrlInvalid == "App URL must be a valid URL"
MsgEmailRequired == "Email is required"
MsgEmailInvalid == "Email must be a valid email address"
MsgSelection == "At least one service must be selected"
MsgFeaturesArray == "Selected features must be an array"
MsgServicesArray == "Selected services must be an array"
MsgCustomText == "Custom request description is required when custom request is selected"

\* !x || typeof x !== 'string' || !x.trim()
MissingString(x) == ~Truthy(x) \/ x.t # "string" \/ Trim(x.v) = <<>>

\* The request body after request.json(): JSON null, or an object whose
\* absent properties read as undefined.
validateThrows(data) ==
    \* line 105 reads a property of null
    \/ data.kind = "null"
    \* line 137 calls .trim on a truthy value that is not a string
    \/ /\ Truthy(data.hasCustomRequest)
       /\ Truthy(data.customRequestText)
       /\ data.customRequestText.t # "string"

validateErrors(data) ==
    LET urlErr ==
            IF MissingString(data.appUrl) THEN <<MsgUrlRequired>>
            ELSE IF ~isValidUrl(data.appUrl.v) THEN <<MsgUrlInvalid>>
            ELSE <<>>
        emailErr ==
            IF MissingString(data.email) THEN <<MsgEmailRequired>>
            ELSE IF ~isValidEmail(data.email.v) THEN <<MsgEmailInvalid>>
            ELSE <<>>
        hasFeatures == IsArray(data.selectedFeatures) /\ Len(data.selectedFeatures.v) > 0
        hasServices == IsArray(data.selectedServices) /\ Len(data.selectedServices.v) > 0
        hasCustom == data.hasCustomRequest = Bool(TRUE)
        selErr ==
            IF ~hasFeatures /\ ~hasServices /\ ~hasCustom THEN <<MsgSelection>> ELSE <<>>
        featArrErr ==
            IF Truthy(data.selectedFeatures) /\ ~IsArray(data.selectedFeatures)
            THEN <<MsgFeaturesArray>> ELSE <<>>
        servArrErr ==
            IF Truthy(data.selectedServices) /\ ~IsArray(data.selectedServices)
            THEN <<MsgServicesArray>> ELSE <<>>
        customErr ==
            IF /\ Truthy(data.hasCustomRequest)
               /\ (~Truthy(data.customRequestText) \/ Trim(data.customRequestText.v) = <<>>)
            THEN <<MsgCustomText>> ELSE <<>>
    IN urlErr \o emailErr \o selErr \o featArrErr \o servArrErr \o customErr

\* result of validateEstimateForm(data); threw = a TypeError escaped it
validateEstimateForm(data) ==
    IF validateThrows(data)
    THEN [threw |-> TRUE, isValid |-> FALSE, errors |-> <<>>]
    ELSE LET errors == validateErrors(data)
         IN [threw |-> FALSE, isValid |-> errors = <<>>, errors |-> errors]

(***************************************************************************)
(* Submission handler                                                      *)
(***************************************************************************)
\* a || b
Or(a, b) == IF Truthy(a) THEN a ELSE b

\* Exceptions, by what the catch block of handleSubmitRequest looks at
SyntaxErrorExc == [syntaxError |-> TRUE, statusCode |-> FALSE, message |-> "Unexpected token"]
TypeErrorExc == [syntaxError |-> FALSE, statusCode |-> FALSE, message |-> "TypeError"]
StoreError(hasStatus, msg) == [syntaxError |-> FALSE, statusCode |-> hasStatus, message |-> msg]
NoError == [syntaxError |-> FALSE, statusCode |-> FALSE, message |-> ""]

corsHeaders == TRUE

\* new Response(JSON.stringify(body), { status, headers: {...corsHeaders, ...} })
JsonResponse(status, success, error) ==
    [status |-> status, hasBody |-> TRUE, success |-> success, error |-> error,
     hasErrors |-> FALSE, errors |-> <<>>, hasDetails |-> FALSE, details |-> "",
     cors |-> corsHeaders, location |-> ""]

MethodNotAllowed == JsonResponse(405, FALSE, "Method not allowed")

ValidationFailed(errors) ==
    [JsonResponse(400, FALSE, "Validation failed") EXCEPT !.hasErrors = TRUE, !.errors = errors]

ConfigurationError == JsonResponse(500, FALSE, "Server configuration error")

Success == JsonResponse(200, TRUE, "")

\* the catch block without the SyntaxError branch
Catch_noSyntaxCheck(error) ==
    IF error.statusCode
    THEN [JsonResponse(500, FALSE, "Failed to save to database")
             EXCEPT !.hasDetails = TRUE, !.details = error.message]
    ELSE JsonResponse(500, FALSE, "Internal server error")

\* the catch block without the statusCode branch
Catch_noStatusCheck(error) ==
    IF error.syntaxError THEN JsonResponse(400, FALSE, "Invalid JSON in request body")
    ELSE JsonResponse(500, FALSE, "Internal server error")

\* the catch block, lines 255-298
Catch(error) ==
    IF error.syntaxError THEN JsonResponse(400, FALSE, "Invalid JSON in request body")
    ELSE IF error.statusCode
    THEN [JsonResponse(500, FALSE, "Failed to save to database")
             EXCEPT !.hasDetails = TRUE, !.details = error.message]
    ELSE JsonResponse(500, FALSE, "Internal server error")

\* new Response(null, { status: 204, headers: corsHeaders })
Preflight ==
    [status |-> 204, hasBody |-> FALSE, success |-> FALSE, error |-> "",
     hasErrors |-> FALSE, errors |-> <<>>, hasDetails |-> FALSE, details |-> "",
     cors |-> corsHeaders, location |-> ""]

\* a redirect to the origin itself
Redirect_toOrigin(origin) ==
    [status |-> 301, hasBody |-> FALSE, success |-> FALSE, error |-> "",
     hasErrors |-> FALSE, errors |-> <<>>, hasDetails |-> FALSE, details |-> "",
     cors |-> FALSE, location |-> origin]

\* Response.redirect(`${url.origin}/404`, 301): only a Location header
Redirect(origin) ==
    [status |-> 301, hasBody |-> FALSE, success |-> FALSE, error |-> "",
     hasErrors |-> FALSE, errors |-> <<>>, hasDetails |-> FALSE, details |-> "",
     cors |-> FALSE, location |-> origin \o "/404"]

NoResponse ==
    [status |-> 0, hasBody |-> FALSE, success |-> FALSE, error |-> "",
     hasErrors |-> FALSE, errors |-> <<>>, hasDetails |-> FALSE, details |-> "",
     cors |-> FALSE, location |-> ""]

\* the configuration check without the base identifier
ConfigMissing_keyOnly(env) == ~env.AIRTABLE_API_KEY

\* !env.AIRTABLE_API_KEY || !env.AIRTABLE_BASE_ID, lines 183-209
ConfigMissing(env) == ~env.AIRTABLE_API_KEY \/ ~env.AIRTABLE_BASE_ID

\* The priced part of the record, lines 218-222 and 234-235
PriceOf(data) ==
    calculatePricing(data.selectedFeatures, data.selectedServices, data.hasCustomRequest)

\* the numeric value of a number literal of the inputs
NumberValue(x) ==
    CASE x.v = <<"0">> -> 0 [] x.v = <<"1">> -> 1 [] x.v = <<"5">> -> 5
      [] x.v = <<"270">> -> 270 [] OTHER -> 0

\* the record with the price taken from the payload when it carries one
BuildRecord_trustsClient(data) ==
    [AppUrl |-> data.appUrl,
     Email |-> data.email,
     Platform |-> Or(data.platform, Str(<<"Not specified">>)),
     SelectedFeatures |-> Or(data.selectedFeatures, Null),
     SelectedServices |-> Or(data.selectedServices, Null),
     CustomRequest |-> Truthy(data.hasCustomRequest),
     CustomRequestDescription |-> Or(data.customRequestText, Null),
     EstimatedPrice |-> IF data.total.t = "number" THEN NumV(NumberValue(data.total))
                        ELSE PriceOf(data).total,
     FeatureDiscount |-> PriceOf(data).discount,
     Status |-> "New"]

\* The record handed to create, lines 225-238 (Notes and Timestamp left out)
BuildRecord(data) ==
    [AppUrl |-> data.appUrl,
     Email |-> data.email,
     Platform |-> Or(data.platform, Str(<<"Not specified">>)),
     SelectedFeatures |-> Or(data.selectedFeatures, Null),
     SelectedServices |-> Or(data.selectedServices, Null),
     CustomRequest |-> Truthy(data.hasCustomRequest),
     CustomRequestDescription |-> Or(data.customRequestText, Null),
     EstimatedPrice |-> PriceOf(data).total,
     FeatureDiscount |-> PriceOf(data).discount,
     Status |-> "New"]

\* What the handler does once request.json() has settled, lines 164-241:
\* the response it returns at once, or the create call it issues.
AfterBody(body, env) ==
    IF ~body.wellFormed
    THEN [issue |-> FALSE, resp |-> Catch(SyntaxErrorExc), caught |-> SyntaxErrorExc,
          steps |-> <<"json">>]
    ELSE LET validation == validateEstimateForm(body.data)
         IN IF validation.threw
            THEN [issue |-> FALSE, resp |-> Catch(TypeErrorExc), caught |-> TypeErrorExc,
                  steps |-> <<"json", "validate">>]
            ELSE IF ~validation.isValid
            THEN [issue |-> FALSE, resp |-> ValidationFailed(validation.errors),
                  caught |-> NoError, steps |-> <<"json", "validate">>]
            ELSE IF ConfigMissing(env)
            THEN [issue |-> FALSE, resp |-> ConfigurationError, caught |-> NoError,
                  steps |-> <<"json", "validate", "config">>]
            ELSE [issue |-> TRUE, resp |-> NoResponse, caught |-> NoError,
                  steps |-> <<"json", "validate", "config", "airtable", "pricing", "create">>]

\* the handler answering without awaiting create
AfterCreate_notAwaited(created, error) == Success

\* What the handler returns once create has settled, lines 241-298
AfterCreate(created, error) == IF created THEN Success ELSE Catch(error)

(***************************************************************************)
(* Inputs                                                                  *)
(***************************************************************************)
BoundedSeq(S, n) == UNION {[1..m -> S] : m \in 0..n}

FeatureInputs == DOMAIN PRICING.features \cup {"Bogus"} \cup InheritedNames
ServiceInputs == DOMAIN PRICING.services \cup {"Bogus"} \cup InheritedNames

UrlOk == Str(<<"a", ":", "a">>)
EmailOk == Str(<<"a", "@", "a", ".", "a">>)

UrlInputs ==
    {Undefined, Number("5"), Str(<<>>), Str(<<" ">>), Str(<<"a">>), Str(<<"a", ".", "a">>),
     UrlOk, Str(<<" ", "a", ":", "a">>)}
EmailInputs ==
    {Undefined, Str(<<" ">>), Str(<<"a", "@", "a">>), EmailOk,
     Str(<<"a", "@", "a", ".", "a", " ">>)}
FeaturesFieldInputs ==
    {Undefined, Null, Number("0"), Number("5"), Obj, Arr(<<>>), Arr(<<"Authentication">>)}
ServicesFieldInputs ==
    {Undefined, Bool(FALSE), Obj, Arr(<<>>), Arr(<<"UI/UX Review">>)}
FlagInputs == {Undefined, Bool(FALSE), Bool(TRUE), Number("1")}
TextInputs == {Undefined, Str(<<>>), Str(<<" ">>), Str(<<"X">>), Number("5")}

\* A parsed request body: JSON null, or an object with these properties
Data(appUrl, email, platform, features, services, flag, text, total) ==
    [kind |-> "object", appUrl |-> appUrl, email |-> email, platform |-> platform,
     selectedFeatures |-> features, selectedServices |-> services,
     hasCustomRequest |-> flag, customRequestText |-> text, total |-> total]

EmptyObject ==
    Data(Undefined, Undefined, Undefined, Undefined, Undefined, Undefined, Undefined, Undefined)
NullData == [EmptyObject EXCEPT !.kind = "null"]

ThreeFeatures == Arr(<<"Authentication", "Payments", "SaaS Subscriptions">>)

\* Request bodies the worker is given
Bodies ==
    {[wellFormed |-> FALSE, data |-> EmptyObject],
     [wellFormed |-> TRUE, data |-> NullData],
     [wellFormed |-> TRUE, data |-> EmptyObject],
     [wellFormed |-> TRUE,
      data |-> Data(UrlOk, EmailOk, Str(<<"Cursor">>), ThreeFeatures, Arr(<<>>),
                    Bool(FALSE), Str(<<>>), Number("270"))],
     [wellFormed |-> TRUE,
      data |-> Data(UrlOk, EmailOk, Undefined, ThreeFeatures, Arr(<<>>),
                    Bool(FALSE), Str(<<>>), Number("1"))],
     [wellFormed |-> TRUE,
      data |-> Data(UrlOk, EmailOk, Undefined, Arr(<<>>), Arr(<<"Security Audit & Fixes">>),
                    Bool(TRUE), Str(<<"X">>), Undefined)],
     [wellFormed |-> TRUE,
      data |-> Data(UrlOk, EmailOk, Undefined, Arr(<<>>), Arr(<<>>),
                    Bool(TRUE), Str(<<" ">>), Undefined)],
     [wellFormed |-> TRUE,
      data |-> Data(UrlOk, Undefined, Undefined, Arr(<<>>), Arr(<<>>),
                    Bool(TRUE), Number("5"), Undefined)],
     [wellFormed |-> TRUE,
      data |-> Data(UrlOk, EmailOk, Undefined, Arr(<<"Authentication", "Payments", "Bogus">>),
                    Arr(<<>>), Bool(FALSE), Str(<<>>), Undefined)],
     [wellFormed |-> TRUE,
      data |-> Data(UrlOk, EmailOk, Undefined, Number("0"), Arr(<<"UI/UX Review">>),
                    Bool(FALSE), Str(<<>>), Undefined)]}

UnreadBody == [wellFormed |-> FALSE, data |-> NullData]

Methods == {"GET", "POST", "OPTIONS"}
SubmitPath == "/api/submit-request"
Paths == {SubmitPath, "/foo"}
\* request URLs, as new URL(request.url) splits them
Urls == {[origin |-> "https://a.example", pathname |-> SubmitPath],
         [origin |-> "https://a.example", pathname |-> "/foo"],
         [origin |-> "https://b.example", pathname |-> "/foo"]}
Envs == [AIRTABLE_API_KEY : BOOLEAN, AIRTABLE_BASE_ID : BOOLEAN]
StoreErrors == {StoreError(TRUE, "INVALID_REQUEST"), StoreError(TRUE, "NOT_AUTHORIZED"),
                StoreError(FALSE, "CONNECTION_ERROR")}

Reqs == 1..MaxReq

(***************************************************************************)
(* State                                                                   *)
(***************************************************************************)
VARIABLES
    pc,       \* per request: "idle", "reading" (awaiting request.json()),
              \* "creating" (awaiting create), "done"
    req,      \* per request: method, path and, once read, the body and env
    resp,     \* per request: the response returned
    caught,   \* per request: the exception the catch block received, if any
    steps,    \* per request: the steps of handleSubmitRequest executed so far
    store,    \* the external record store: the records created, in order
    pIn,      \* pricing engine on its own: the arguments
    pOut,     \* pricing engine on its own: the result
    pDone,    \* pricing engine on its own: calculatePricing has run
    vIn,      \* validation on its own: the payload
    vOut,     \* validation on its own: the result
    vDone,    \* validation on its own: validateEstimateForm has run
    state,    \* the estimate form's state object
    elements, \* the estimate form's page: input values, visibility, button
    sending,  \* a handleSendRequest call is awaiting the response
    outcome,  \* how the last submission ended: "none" before the first, "ok", "failed"
    clicks,   \* submit clicks handled so far
    posts,    \* POSTs sent so far
    checked,  \* the cards whose checkbox was last reported checked
    order     \* pairs <<a, b>> of checked cards: a was checked before b

workerVars == <<pc, req, resp, caught, steps, store, pricingObj>>
pricingVars == <<pIn, pOut, pDone>>
validationVars == <<vIn, vOut, vDone>>
clientVars == <<state, elements, sending, outcome, clicks, posts, checked, order>>
vars == <<pc, req, resp, caught, steps, store, pricingObj, pIn, pOut, pDone, vIn, vOut, vDone,
          state, elements, sending, outcome, clicks, posts, checked, order>>

NoRequest ==
    [method |-> "GET", origin |-> "https://a.example", path |-> SubmitPath,
     env |-> [AIRTABLE_API_KEY |-> FALSE, AIRTABLE_BASE_ID |-> FALSE],
     body |-> UnreadBody]

WorkerInit ==
    /\ pc = [r \in Reqs |-> "idle"]
    /\ req = [r \in Reqs |-> NoRequest]
    /\ resp = [r \in Reqs |-> NoResponse]
    /\ caught = [r \in Reqs |-> NoError]
    /\ steps = [r \in Reqs |-> <<>>]
    /\ store = <<>>
    /\ pricingObj = PRICING

PricingIdle ==
    /\ pIn = [features |-> Undefined, services |-> Undefined, custom |-> Undefined]
    /\ pOut = [total |-> NumV(0), discount |-> NumV(0)]
    /\ pDone = FALSE

ValidationIdle ==
    /\ vIn = EmptyObject
    /\ vOut = [threw |-> FALSE, isValid |-> FALSE, errors |-> <<>>]
    /\ vDone = FALSE

\* The form's state object as declared, lines 10-22 (platform,
\* otherPlatform and additionalContext left out)
InitialState ==
    [selectedFeatures |-> <<>>, selectedServices |-> <<>>, hasCustomRequest |-> FALSE,
     customRequestText |-> <<>>, appUrl |-> <<>>, email |-> <<>>,
     totalPrice |-> 0, featureDiscount |-> 0]

\* The page as loaded and after init(): the inputs empty, the form shown,
\* the notices, the summary and the messages hidden, the button enabled
InitialElements ==
    [appUrl |-> <<>>, email |-> <<>>,
     featureDiscountHidden |-> TRUE, estimateSummaryHidden |-> TRUE,
     customRequestContainerHidden |-> TRUE, customRequestNoteHidden |-> TRUE,
     totalEstimate |-> [total |-> 0, plus |-> FALSE],
     errorMessageHidden |-> TRUE, errorMessage |-> <<>>,
     formHidden |-> FALSE, successMessageHidden |-> TRUE,
     sendRequestBtnDisabled |-> FALSE]

ClientInit ==
    /\ state = InitialState
    /\ elements = InitialElements
    /\ sending = FALSE
    /\ outcome = "none"
    /\ clicks = 0
    /\ posts = 0
    /\ checked = {}
    /\ order = {}

(***************************************************************************)
(* The worker: fetch, handleSubmitRequest and the record store             *)
(***************************************************************************)
Finish(r, response, error, done) ==
    /\ pc' = [pc EXCEPT ![r] = "done"]
    /\ resp' = [resp EXCEPT ![r] = response]
    /\ caught' = [caught EXCEPT ![r] = error]
    /\ steps' = [steps EXCEPT ![r] = steps[r] \o done]

\* the routing with the switch on the path ahead of the preflight check
Dispatch_routeFirst(method, pathname) ==
    IF pathname # SubmitPath THEN "redirect"
    ELSE IF method # "POST" THEN "notAllowed"
    ELSE "handle"

\* the routing without the method check of the handler
Dispatch_anyMethod(method, pathname) ==
    IF method = "OPTIONS" THEN "preflight"
    ELSE IF pathname # SubmitPath THEN "redirect"
    ELSE "handle"

\* Where fetch sends a request, lines 306-321 and 152: the preflight answer,
\* the redirect, the handler's 405, or the handler's try block
Dispatch(method, pathname) ==
    IF method = "OPTIONS" THEN "preflight"
    ELSE IF pathname # SubmitPath THEN "redirect"
    ELSE IF method # "POST" THEN "notAllowed"
    ELSE "handle"

\* fetch(request, env) up to the first await, lines 302-321 and 150-164;
\* env is not looked at before line 183 and is recorded when it is
Fetch(r) ==
    /\ pc[r] = "idle"
    /\ \E method \in Methods, url \in Urls :
        LET route == Dispatch(method, url.pathname)
        IN /\ req' = [req EXCEPT ![r] = [method |-> method, origin |-> url.origin,
                                         path |-> url.pathname, env |-> NoRequest.env,
                                         body |-> UnreadBody]]
           /\ IF route = "preflight"
              THEN Finish(r, Preflight, NoError, <<>>)
              ELSE IF route = "redirect"
              THEN Finish(r, Redirect(url.origin), NoError, <<>>)
              ELSE IF route = "notAllowed"
              THEN Finish(r, MethodNotAllowed, NoError, <<>>)
              ELSE /\ pc' = [pc EXCEPT ![r] = "reading"]
                   /\ UNCHANGED <<resp, caught, steps>>
    /\ UNCHANGED <<store, pricingObj, pricingVars, validationVars, clientVars>>

\* request.json() settles; the handler runs on to a response or to the
\* create call, lines 164-241, reading env on the way
BodyRead(r) ==
    /\ pc[r] = "reading"
    /\ \E body \in Bodies, env \in Envs :
        LET after == AfterBody(body, env)
        IN /\ req' = [req EXCEPT ![r].body = body, ![r].env = env]
           /\ IF after.issue
              THEN /\ pc' = [pc EXCEPT ![r] = "creating"]
                   /\ steps' = [steps EXCEPT ![r] = after.steps]
                   /\ UNCHANGED <<resp, caught>>
              ELSE Finish(r, after.resp, after.caught, after.steps)
    /\ UNCHANGED <<store, pricingObj, pricingVars, validationVars, clientVars>>

\* create skipping a record the store already holds with the same fields
CreateResolves_deduplicates(r) ==
    /\ pc[r] = "creating"
    /\ store' = IF \E i \in DOMAIN store : store[i].fields = BuildRecord(req[r].body.data)
                THEN store
                ELSE Append(store, [by |-> r, fields |-> BuildRecord(req[r].body.data)])
    /\ Finish(r, AfterCreate(TRUE, NoError), NoError, <<>>)
    /\ UNCHANGED <<req, pricingObj, pricingVars, validationVars, clientVars>>

\* base(tableName).create([{ fields: record }]) resolves: the store holds
\* the record
CreateResolves(r) ==
    /\ pc[r] = "creating"
    /\ store' = Append(store, [by |-> r, fields |-> BuildRecord(req[r].body.data)])
    /\ Finish(r, AfterCreate(TRUE, NoError), NoError, <<>>)
    /\ UNCHANGED <<req, pricingObj, pricingVars, validationVars, clientVars>>

\* create rejects: the store holds no record of the request
CreateRejects(r) ==
    /\ pc[r] = "creating"
    /\ \E error \in StoreErrors : Finish(r, AfterCreate(FALSE, error), error, <<>>)
    /\ UNCHANGED <<req, store, pricingObj, pricingVars, validationVars, clientVars>>

Init == WorkerInit /\ PricingIdle /\ ValidationIdle /\ ClientInit

Next == \E r \in Reqs : Fetch(r) \/ BodyRead(r) \/ CreateResolves(r) \/ CreateRejects(r)

Spec == Init /\ [][Next]_vars

(***************************************************************************)
(* The pricing engine on its own                                           *)
(***************************************************************************)
PricingInit ==
    /\ pIn \in [features : {Arr(s) : s \in BoundedSeq(FeatureInputs, MaxFeatures)}
                               \cup {Undefined},
                services : {Arr(s) : s \in BoundedSeq(ServiceInputs, MaxServices)}
                               \cup {Undefined},
                custom : {Bool(FALSE), Bool(TRUE)}]
    /\ pOut = [total |-> NumV(0), discount |-> NumV(0)]
    /\ pDone = FALSE
    /\ WorkerInit /\ ValidationIdle /\ ClientInit

Price ==
    /\ ~pDone
    /\ pOut' = calculatePricing(pIn.features, pIn.services, pIn.custom)
    /\ pDone' = TRUE
    /\ UNCHANGED <<pIn, workerVars, validationVars, clientVars>>

PricingNext == Price

SpecPricing == PricingInit /\ [][PricingNext]_vars

(***************************************************************************)
(* Validation on its own                                                   *)
(***************************************************************************)
ValidationInit ==
    /\ vIn \in {Data(u, e, Undefined, f, s, c, t, Undefined) :
                   u \in UrlInputs, e \in EmailInputs, f \in FeaturesFieldInputs,
                   s \in ServicesFieldInputs, c \in FlagInputs, t \in TextInputs}
               \cup {NullData}
    /\ vOut = [threw |-> FALSE, isValid |-> FALSE, errors |-> <<>>]
    /\ vDone = FALSE
    /\ WorkerInit /\ PricingIdle /\ ClientInit

Validate ==
    /\ ~vDone
    /\ vOut' = validateEstimateForm(vIn)
    /\ vDone' = TRUE
    /\ UNCHANGED <<vIn, workerVars, pricingVars, clientVars>>

ValidationNext == Validate

SpecValidation == ValidationInit /\ [][ValidationNext]_vars

(***************************************************************************)
(* Properties of the pricing engine (SpecPricing)                          *)
(***************************************************************************)
\* The catalog's unit price of a name, as the specification states it
UnitPrice(catalog, name) == IF name \in DOMAIN catalog THEN catalog[name] ELSE 0

RECURSIVE UnitPriceSum(_, _)
UnitPriceSum(catalog, names) ==
    IF names = <<>> THEN 0 ELSE UnitPrice(catalog, Head(names)) + UnitPriceSum(catalog, Tail(names))

\* round(0.10 * n) for a non-negative integer n
RoundTenth(n) == (n + 5) \div 10

NamesOf(x) == IF IsArray(x) THEN x.v ELSE <<>>

AllIn(names, catalog) == \A i \in 1..Len(names) : names[i] \in DOMAIN catalog

\* the selection consists of catalog items
CatalogSelection ==
    /\ AllIn(NamesOf(pIn.features), PRICING.features)
    /\ AllIn(NamesOf(pIn.services), PRICING.services)

\* C1: with 3 or more selected features the discount is round(0.10 * sum of
\* the feature prices) and the total is the feature sum minus the discount
\* plus the service prices plus 250 when the custom request is selected.
C1_DiscountAndTotal ==
    (pDone /\ CatalogSelection /\ Len(NamesOf(pIn.features)) >= 3) =>
        LET f == UnitPriceSum(PRICING.features, NamesOf(pIn.features))
            s == UnitPriceSum(PRICING.services, NamesOf(pIn.services))
            c == IF pIn.custom = Bool(TRUE) THEN 250 ELSE 0
        IN /\ pOut.discount = NumV(RoundTenth(f))
           /\ pOut.total = NumV(f - RoundTenth(f) + s + c)

C1_Witness ==
    /\ pDone
    /\ pIn.features = ThreeFeatures
    /\ pIn.services = Arr(<<>>)
    /\ pIn.custom = Bool(FALSE)
    /\ pOut = [total |-> NumV(270), discount |-> NumV(30)]

\* C2: with fewer than 3 selected features the discount is 0, whatever the
\* services and the custom-request flag; nothing selected gives total 0.
C2_NoDiscountBelowThreshold ==
    pDone =>
        /\ Len(NamesOf(pIn.features)) < 3 => pOut.discount = NumV(0)
        /\ (NamesOf(pIn.features) = <<>> /\ NamesOf(pIn.services) = <<>>
                /\ pIn.custom = Bool(FALSE))
             => pOut = [total |-> NumV(0), discount |-> NumV(0)]

C2_Witness ==
    /\ pDone
    /\ pIn.features = Arr(<<"Authentication", "Payments">>)
    /\ pIn.services = Arr(<<"Security Audit & Fixes">>)
    /\ pIn.custom = Bool(TRUE)
    /\ pOut = [total |-> NumV(600), discount |-> NumV(0)]

RECURSIVE Recognized(_, _)
Recognized(catalog, names) ==
    IF names = <<>> THEN <<>>
    ELSE (IF Head(names) \in DOMAIN catalog THEN <<Head(names)>> ELSE <<>>)
             \o Recognized(catalog, Tail(names))

WithoutUnrecognized(catalog, x) == IF IsArray(x) THEN Arr(Recognized(catalog, x.v)) ELSE x

\* C3: names that are not in the catalog are ignored: the result equals the
\* result on the selection with every unrecognized name removed.
C3_UnknownNamesIgnored ==
    pDone =>
        pOut = calculatePricing(WithoutUnrecognized(PRICING.features, pIn.features),
                                WithoutUnrecognized(PRICING.services, pIn.services),
                                pIn.custom)

(***************************************************************************)
(* Properties of the validation (SpecValidation)                           *)
(***************************************************************************)
\* The validation rules as the specification states them
IsText(x) == x.t = "string"
Blank(x) == ~IsText(x) \/ Trim(x.v) = <<>>
Present(x) == x.t \notin {"undefined", "null"}
NonEmptyList(x) == IsArray(x) /\ x.v # <<>>

RuleUrlMissing(data) == Blank(data.appUrl)
RuleUrlMalformed(data) == ~Blank(data.appUrl) /\ ~isValidUrl(data.appUrl.v)
RuleEmailMissing(data) == Blank(data.email)
RuleEmailMalformed(data) == ~Blank(data.email) /\ ~isValidEmail(data.email.v)
RuleNothingSelected(data) ==
    /\ ~NonEmptyList(data.selectedFeatures)
    /\ ~NonEmptyList(data.selectedServices)
    /\ data.hasCustomRequest # Bool(TRUE)
RuleCustomWithoutText(data) == data.hasCustomRequest = Bool(TRUE) /\ Blank(data.customRequestText)
RuleFeaturesNotSequence(data) == Present(data.selectedFeatures) /\ ~IsArray(data.selectedFeatures)
RuleServicesNotSequence(data) == Present(data.selectedServices) /\ ~IsArray(data.selectedServices)

Violations(data) ==
    {m \in {MsgUrlRequired, MsgUrlInvalid, MsgEmailRequired, MsgEmailInvalid, MsgSelection,
            MsgFeaturesArray, MsgServicesArray, MsgCustomText} :
        \/ m = MsgUrlRequired /\ RuleUrlMissing(data)
        \/ m = MsgUrlInvalid /\ RuleUrlMalformed(data)
        \/ m = MsgEmailRequired /\ RuleEmailMissing(data)
        \/ m = MsgEmailInvalid /\ RuleEmailMalformed(data)
        \/ m = MsgSelection /\ RuleNothingSelected(data)
        \/ m = MsgFeaturesArray /\ RuleFeaturesNotSequence(data)
        \/ m = MsgServicesArray /\ RuleServicesNotSequence(data)
        \/ m = MsgCustomText /\ RuleCustomWithoutText(data)}

Range(seq) == {seq[i] : i \in 1..Len(seq)}

\* C6: validation collects all violations: for every object payload the
\* errors list holds the message of every violated rule, and the result is
\* valid exactly when no rule is violated.
C6_AllViolationsCollected ==
    (vDone /\ vIn.kind = "object") =>
        /\ ~vOut.threw
        /\ Violations(vIn) \subseteq Range(vOut.errors)
        /\ vOut.isValid <=> Violations(vIn) = {}

(***************************************************************************)
(* Properties of the submission handler (Spec)                             *)
(***************************************************************************)
RecordsOf(r) == {i \in DOMAIN store : store[i].by = r}
IsSubmitPost(r) == req[r].method = "POST" /\ req[r].path = SubmitPath
BodyWasRead(r) == "json" \in Range(steps[r])
DataOf(r) == req[r].body.data
PassesValidation(data) ==
    ~validateEstimateForm(data).threw /\ validateEstimateForm(data).isValid
CreateCalls(r) == Cardinality({i \in DOMAIN steps[r] : steps[r][i] = "create"})

SameSelection(a, b) ==
    /\ a.selectedFeatures = b.selectedFeatures
    /\ a.selectedServices = b.selectedServices
    /\ a.hasCustomRequest = b.hasCustomRequest

\* C4: the stored price and discount depend on the payload's feature names,
\* service names and custom-request flag only: two records whose payloads
\* agree on these three carry the same price and the same discount.
C4_PriceFromNamesOnly ==
    \A i \in DOMAIN store : \A j \in DOMAIN store :
        SameSelection(DataOf(store[i].by), DataOf(store[j].by)) =>
            /\ store[i].fields.EstimatedPrice = store[j].fields.EstimatedPrice
            /\ store[i].fields.FeatureDiscount = store[j].fields.FeatureDiscount

C4_Witness ==
    \E i \in DOMAIN store : \E j \in DOMAIN store :
        /\ SameSelection(DataOf(store[i].by), DataOf(store[j].by))
        /\ DataOf(store[i].by).total # DataOf(store[j].by).total
        /\ DataOf(store[i].by).platform # DataOf(store[j].by).platform
        /\ store[i].fields.EstimatedPrice = NumV(270)
        /\ store[j].fields.EstimatedPrice = NumV(270)

\* C5: no partial success: a request is answered 200 exactly when it created
\* one record; a request without a 200 response has no record in the store,
\* and no request creates more than one record.
C5_NoPartialSuccess ==
    \A r \in Reqs :
        /\ Cardinality(RecordsOf(r)) <= 1
        /\ resp[r].status # 200 => RecordsOf(r) = {}
        /\ pc[r] = "done" => (resp[r].status = 200 <=> Cardinality(RecordsOf(r)) = 1)

C5_Witness ==
    \E r \in Reqs : \E q \in Reqs :
        /\ pc[r] = "done" /\ resp[r] = Success /\ Cardinality(RecordsOf(r)) = 1
        /\ pc[q] = "done" /\ CreateCalls(q) = 1 /\ resp[q].status = 500 /\ RecordsOf(q) = {}

\* C7: a POST to the submit route whose body is well-formed JSON but fails
\* validation is answered 400 'Validation failed' with the list of errors,
\* whatever the store configuration, and the store is not called.
C7_InvalidPayloadAnswered400 ==
    \A r \in Reqs :
        (pc[r] = "done" /\ IsSubmitPost(r) /\ req[r].body.wellFormed
            /\ ~PassesValidation(DataOf(r))) =>
            /\ resp[r].status = 400
            /\ resp[r].error = "Validation failed"
            /\ resp[r].hasErrors /\ resp[r].errors # <<>>
            /\ CreateCalls(r) = 0

\* C8: a POST to the submit route whose body is not well-formed JSON is
\* answered 400 'Invalid JSON in request body' without an errors list;
\* validation, the configuration check and the store call are not reached.
C8_MalformedJsonAnswered400 ==
    \A r \in Reqs :
        (BodyWasRead(r) /\ IsSubmitPost(r) /\ ~req[r].body.wellFormed) =>
            /\ pc[r] = "done"
            /\ resp[r].status = 400
            /\ resp[r].error = "Invalid JSON in request body"
            /\ ~resp[r].hasErrors
            /\ steps[r] = <<"json">>
            /\ RecordsOf(r) = {}

C8_Witness ==
    \E r \in Reqs :
        /\ pc[r] = "done" /\ IsSubmitPost(r) /\ BodyWasRead(r) /\ ~req[r].body.wellFormed
        /\ caught[r] = SyntaxErrorExc
        /\ resp[r].status = 400

\* C9: a POST to the submit route whose payload passes validation while the
\* API key or the base identifier is missing is answered 500 'Server
\* configuration error'; the store client is neither constructed nor called
\* and no record is written.
C9_MissingConfigurationAnswered500 ==
    \A r \in Reqs :
        (BodyWasRead(r) /\ IsSubmitPost(r) /\ req[r].body.wellFormed
            /\ PassesValidation(DataOf(r))
            /\ (~req[r].env.AIRTABLE_API_KEY \/ ~req[r].env.AIRTABLE_BASE_ID)) =>
            /\ pc[r] = "done"
            /\ resp[r].status = 500
            /\ resp[r].error = "Server configuration error"
            /\ "airtable" \notin Range(steps[r])
            /\ CreateCalls(r) = 0
            /\ RecordsOf(r) = {}

C9_Witness ==
    \E r \in Reqs : \E q \in Reqs :
        /\ pc[r] = "done" /\ resp[r] = ConfigurationError
        /\ req[r].env = [AIRTABLE_API_KEY |-> TRUE, AIRTABLE_BASE_ID |-> FALSE]
        /\ pc[q] = "done" /\ resp[q] = ConfigurationError
        /\ req[q].env = [AIRTABLE_API_KEY |-> FALSE, AIRTABLE_BASE_ID |-> TRUE]

Answered(r) == pc[r] = "done"

\* C11 as stated: every request to the submit route with a method other
\* than POST is answered 405 'Method not allowed' before the body is read
\* and writes no record.
C11_EveryNonPostAnswered405 ==
    \A r \in Reqs :
        (Answered(r) /\ req[r].path = SubmitPath /\ req[r].method # "POST") =>
            /\ resp[r] = MethodNotAllowed
            /\ steps[r] = <<>>
            /\ RecordsOf(r) = {}

\* C11 (amended): every request to the submit route with a method other
\* than POST and OPTIONS is answered 405 'Method not allowed' before the
\* body is read and writes no record; OPTIONS is answered by the preflight.
C11_NonPostAnswered405 ==
    \A r \in Reqs :
        (Answered(r) /\ req[r].path = SubmitPath /\ req[r].method \notin {"POST", "OPTIONS"}) =>
            /\ resp[r].status = 405
            /\ resp[r].error = "Method not allowed"
            /\ ~resp[r].success
            /\ steps[r] = <<>>
            /\ RecordsOf(r) = {}

C11_Witness ==
    \E r \in Reqs :
        /\ Answered(r) /\ req[r].path = SubmitPath /\ req[r].method = "GET"
        /\ resp[r].status = 405

\* C12: every response the worker returns carries the CORS headers.
C12_EveryResponseHasCors == \A r \in Reqs : Answered(r) => resp[r].cors

\* C13: an OPTIONS request on any path is answered 204 with an empty body
\* and reaches neither the submission handler nor the redirect.
C13_OptionsAnswered204 ==
    \A r \in Reqs :
        (Answered(r) /\ req[r].method = "OPTIONS") =>
            /\ resp[r].status = 204
            /\ ~resp[r].hasBody
            /\ resp[r].location = ""
            /\ steps[r] = <<>>
            /\ RecordsOf(r) = {}

C13_Witness ==
    \E r \in Reqs : \E q \in Reqs :
        /\ Answered(r) /\ req[r].method = "OPTIONS" /\ req[r].path = SubmitPath
        /\ resp[r].status = 204
        /\ Answered(q) /\ req[q].method = "OPTIONS" /\ req[q].path = "/foo"
        /\ resp[q].status = 204

\* C14: every request that is not OPTIONS and whose path is not the submit
\* route is answered with a 301 redirect to /404 on the request's origin and
\* reaches neither validation nor the store.
C14_UnknownPathRedirected ==
    \A r \in Reqs :
        (Answered(r) /\ req[r].method # "OPTIONS" /\ req[r].path # SubmitPath) =>
            /\ resp[r].status = 301
            /\ resp[r].location = req[r].origin \o "/404"
            /\ steps[r] = <<>>
            /\ RecordsOf(r) = {}

C14_Witness ==
    \E r \in Reqs : \E q \in Reqs :
        /\ Answered(r) /\ req[r].method = "POST" /\ req[r].path = "/foo"
        /\ req[r].origin = "https://a.example"
        /\ resp[r].location = "https://a.example/404"
        /\ Answered(q) /\ req[q].method = "GET" /\ req[q].origin = "https://b.example"
        /\ resp[q].location = "https://b.example/404"

(***************************************************************************)
(* The estimate form (client)                                              *)
(***************************************************************************)
MaxClicks == 2        \* submit clicks followed

\* Pricing configuration of the form
pricing ==
    [features |-> 100, security |-> 150, uiux |-> 150, deployment |-> 100,
     customBase |-> 250, featureDiscountThreshold |-> 3, featureDiscountRatePercent |-> 10]

\* Human-readable names of the features and services
nameMapping ==
    ("authentication" :> "Authentication" @@ "payments" :> "Payments" @@
     "saas" :> "SaaS Subscriptions" @@ "uploads" :> "File Uploads" @@
     "notifications" :> "Notifications" @@ "security" :> "Security Audit & Fixes" @@
     "uiux" :> "UI/UX Review" @@ "deployment" :> "Deploy to Production")

\* nameMapping[id] || id
NameOf(id) == IF id \in DOMAIN nameMapping THEN nameMapping[id] ELSE id

RECURSIVE NamesOfIds(_)
NamesOfIds(ids) == IF ids = <<>> THEN <<>> ELSE <<NameOf(Head(ids))>> \o NamesOfIds(Tail(ids))

\* The page's cards: data-id of the feature cards and of the service cards
\* followed here, and the data-price of every card (the catalog's prices)
FeatureCards == {"authentication", "payments", "saas"}
ServiceCards == {"security", "deployment"}
dataPrice(id) ==
    CASE id = "security" -> 150 [] id = "uiux" -> 150 [] id = "deployment" -> 100
      [] OTHER -> 100

\* what the user types
UrlTexts == {<<" ", "a", ":", "a">>, <<"a">>}
EmailTexts == {<<"a", "@", "a", ".", "a", " ">>}
CustomTexts == {<<" ">>, <<"X">>}

Elems(seq) == {seq[i] : i \in 1..Len(seq)}

\* a checked card pushed without looking for it in the list
Checked_noLookup(list, id) == Append(list, id)

\* if (!list.some(x => x.id === id)) list.push({ id, name })
Checked(list, id) == IF id \in Elems(list) THEN list ELSE Append(list, id)

\* list.filter(x => x.id !== id)
RECURSIVE Unchecked(_, _)
Unchecked(list, id) ==
    IF list = <<>> THEN <<>>
    ELSE (IF Head(list) = id THEN <<>> ELSE <<Head(list)>>) \o Unchecked(Tail(list), id)

RECURSIVE SumDataPrices(_)
SumDataPrices(ids) == IF ids = <<>> THEN 0 ELSE dataPrice(Head(ids)) + SumDataPrices(Tail(ids))

\* the estimate with the custom base price added to the total
calculateEstimate_withBase(st) ==
    LET featuresTotal == SumDataPrices(st.selectedFeatures)
        applies == Len(st.selectedFeatures) >= pricing.featureDiscountThreshold
        discount ==
            IF applies THEN (featuresTotal * pricing.featureDiscountRatePercent + 50) \div 100
            ELSE 0
    IN [total |-> featuresTotal - discount + SumDataPrices(st.selectedServices)
                    + (IF st.hasCustomRequest THEN pricing.customBase ELSE 0),
        discount |-> discount,
        hasCustom |-> st.hasCustomRequest]

\* calculateEstimate(): the total, the discount and breakdown.hasCustom
calculateEstimate(st) ==
    LET featuresTotal == SumDataPrices(st.selectedFeatures)
        applies == Len(st.selectedFeatures) >= pricing.featureDiscountThreshold
        discount ==
            IF applies THEN (featuresTotal * pricing.featureDiscountRatePercent + 50) \div 100
            ELSE 0
    IN [total |-> featuresTotal - discount + SumDataPrices(st.selectedServices),
        discount |-> discount,
        hasCustom |-> st.hasCustomRequest]

HasSelections(st) ==
    Len(st.selectedFeatures) > 0 \/ Len(st.selectedServices) > 0 \/ st.hasCustomRequest

\* updateLiveCalculation() with updateEstimateSummary(): the state and the
\* page after it
updateLiveCalculation(st, el) ==
    LET est == calculateEstimate(st)
        el1 == [el EXCEPT !.featureDiscountHidden =
                   ~(Len(st.selectedFeatures) >= pricing.featureDiscountThreshold)]
    IN IF HasSelections(st)
       THEN [state |-> [st EXCEPT !.totalPrice = est.total, !.featureDiscount = est.discount],
             elements |-> [el1 EXCEPT !.totalEstimate = [total |-> est.total, plus |-> est.hasCustom],
                                      !.customRequestNoteHidden = ~est.hasCustom,
                                      !.estimateSummaryHidden = FALSE]]
       ELSE [state |-> st, elements |-> [el1 EXCEPT !.estimateSummaryHidden = TRUE]]

\* validateEmail(): the trimmed value is not empty and matches the pattern
validateEmail(el) == Trim(el.email) # <<>> /\ isValidEmail(Trim(el.email))

ErrUrlMissing == "Please enter your app URL"
ErrUrlInvalid == "Please enter a valid URL (e.g., https://example.com)"
ErrNoSelection == "Please select at least one service"
ErrEmail == "Please enter a valid email address"
ErrSubmit == "Failed to submit request. Please try again or contact us directly."

\* validateForm(): the errors it collects
validateForm(st, el) ==
    LET appUrl == Trim(el.appUrl)
    IN (IF appUrl = <<>> THEN <<ErrUrlMissing>>
        ELSE IF ~isValidUrl(appUrl) THEN <<ErrUrlInvalid>> ELSE <<>>)
       \o (IF ~HasSelections(st) THEN <<ErrNoSelection>> ELSE <<>>)
       \o (IF ~validateEmail(el) THEN <<ErrEmail>> ELSE <<>>)

\* requestData of handleSendRequest, as the server parses it
requestData(st) ==
    Data(Str(st.appUrl), Str(st.email), Str(<<>>),
         Arr(NamesOfIds(st.selectedFeatures)), Arr(NamesOfIds(st.selectedServices)),
         Bool(st.hasCustomRequest), Str(st.customRequestText), Undefined)

\* the success message shown with the form left visible
showSuccessMessage_formShown(el) == [el EXCEPT !.successMessageHidden = FALSE]

\* showSuccessMessage()
showSuccessMessage(el) == [el EXCEPT !.formHidden = TRUE, !.successMessageHidden = FALSE]

\* clearForm() leaving the estimate summary shown
clearForm_summaryLeftShown(st, el) ==
    [state |-> InitialState,
     elements |-> [el EXCEPT !.appUrl = <<>>, !.email = <<>>,
                             !.featureDiscountHidden = TRUE,
                             !.customRequestContainerHidden = TRUE,
                             !.customRequestNoteHidden = TRUE]]

\* clearForm(): form.reset(), the state reset and the page reset
clearForm(st, el) ==
    [state |-> InitialState,
     elements |-> [el EXCEPT !.appUrl = <<>>, !.email = <<>>,
                             !.featureDiscountHidden = TRUE,
                             !.customRequestContainerHidden = TRUE,
                             !.estimateSummaryHidden = TRUE,
                             !.customRequestNoteHidden = TRUE]]

\* the failure branch clearing the form as the success branch does
onFailure_clears(st, el) ==
    [state |-> InitialState,
     elements |-> [el EXCEPT !.errorMessage = <<ErrSubmit>>, !.errorMessageHidden = FALSE,
                             !.sendRequestBtnDisabled = FALSE]]

\* the catch and finally blocks of handleSendRequest, lines 424-442
onFailure(st, el) ==
    [state |-> st,
     elements |-> [el EXCEPT !.errorMessage = <<ErrSubmit>>, !.errorMessageHidden = FALSE,
                             !.sendRequestBtnDisabled = FALSE]]

\* why a submission fails: fetch rejects, response.json() rejects,
\* response.ok is false, result.success is false
FailureKinds == {"network", "unparsable", "notOk", "successFalse"}
\* all four end in the catch block of line 424

\* The user can reach the fields and the button while the form is shown
FormShown == ~elements.formHidden

\* change event of a feature checkbox: handleFeatureChange
handleFeatureChange(id, isChecked) ==
    /\ FormShown
    /\ LET list == IF isChecked THEN Checked(state.selectedFeatures, id)
                   ELSE Unchecked(state.selectedFeatures, id)
           after == updateLiveCalculation([state EXCEPT !.selectedFeatures = list], elements)
       IN /\ state' = after.state
          /\ elements' = after.elements
    /\ checked' = IF isChecked THEN checked \cup {id} ELSE checked \ {id}
    /\ order' = IF isChecked
                THEN IF id \in checked THEN order
                     ELSE order \cup {<<x, id>> : x \in checked \cap FeatureCards}
                ELSE {p \in order : p[1] # id /\ p[2] # id}
    /\ UNCHANGED <<sending, outcome, clicks, posts>>
    /\ UNCHANGED <<workerVars, pricingVars, validationVars>>

\* change event of a service checkbox: handleServiceChange
handleServiceChange(id, isChecked) ==
    /\ FormShown
    /\ LET list == IF isChecked THEN Checked(state.selectedServices, id)
                   ELSE Unchecked(state.selectedServices, id)
           after == updateLiveCalculation([state EXCEPT !.selectedServices = list], elements)
       IN /\ state' = after.state
          /\ elements' = after.elements
    /\ checked' = IF isChecked THEN checked \cup {id} ELSE checked \ {id}
    /\ order' = IF isChecked
                THEN IF id \in checked THEN order
                     ELSE order \cup {<<x, id>> : x \in checked \cap ServiceCards}
                ELSE {p \in order : p[1] # id /\ p[2] # id}
    /\ UNCHANGED <<sending, outcome, clicks, posts>>
    /\ UNCHANGED <<workerVars, pricingVars, validationVars>>

\* change event of the custom-request checkbox: handleCustomRequestToggle
handleCustomRequestToggle(isChecked) ==
    /\ FormShown
    /\ LET st == IF isChecked THEN [state EXCEPT !.hasCustomRequest = TRUE]
                 ELSE [state EXCEPT !.hasCustomRequest = FALSE, !.customRequestText = <<>>]
           el == [elements EXCEPT !.customRequestContainerHidden = ~isChecked]
           after == updateLiveCalculation(st, el)
       IN /\ state' = after.state
          /\ elements' = after.elements
    /\ UNCHANGED <<sending, outcome, clicks, posts, checked, order>>
    /\ UNCHANGED <<workerVars, pricingVars, validationVars>>

\* input event of the description field, reachable while its container is shown
handleCustomRequestInput(text) ==
    /\ FormShown
    /\ ~elements.customRequestContainerHidden
    /\ state' = [state EXCEPT !.customRequestText = text]
    /\ UNCHANGED <<elements, sending, outcome, clicks, posts, checked, order>>
    /\ UNCHANGED <<workerVars, pricingVars, validationVars>>

\* input event of the URL field
AppUrlInput(text) ==
    /\ FormShown
    /\ elements' = [elements EXCEPT !.appUrl = text, !.errorMessageHidden = TRUE]
    /\ UNCHANGED <<state, sending, outcome, clicks, posts, checked, order>>
    /\ UNCHANGED <<workerVars, pricingVars, validationVars>>

\* input event of the email field
EmailInput(text) ==
    /\ FormShown
    /\ elements' = [elements EXCEPT !.email = text, !.errorMessageHidden = TRUE]
    /\ UNCHANGED <<state, sending, outcome, clicks, posts, checked, order>>
    /\ UNCHANGED <<workerVars, pricingVars, validationVars>>

\* the click handler leaving the button enabled while the request is sent
Click_buttonLeftEnabled ==
    /\ FormShown
    /\ ~elements.sendRequestBtnDisabled
    /\ clicks < MaxClicks
    /\ clicks' = clicks + 1
    /\ LET errors == validateForm(state, elements)
       IN IF errors # <<>>
          THEN /\ elements' = [elements EXCEPT !.errorMessage = errors,
                                               !.errorMessageHidden = FALSE]
               /\ UNCHANGED <<state, sending, posts>>
          ELSE /\ state' = [state EXCEPT !.appUrl = Trim(elements.appUrl),
                                         !.email = Trim(elements.email)]
               /\ elements' = [elements EXCEPT !.errorMessageHidden = TRUE]
               /\ posts' = posts + 1
               /\ sending' = TRUE
    /\ UNCHANGED <<outcome, checked, order>>
    /\ UNCHANGED <<workerVars, pricingVars, validationVars>>

\* click on the send button: handleSendRequest up to the await of fetch
Click ==
    /\ FormShown
    /\ ~elements.sendRequestBtnDisabled
    /\ clicks < MaxClicks
    /\ clicks' = clicks + 1
    /\ LET errors == validateForm(state, elements)
       IN IF errors # <<>>
          THEN /\ elements' = [elements EXCEPT !.errorMessage = errors,
                                               !.errorMessageHidden = FALSE]
               /\ UNCHANGED <<state, sending, posts>>
          ELSE /\ state' = [state EXCEPT !.appUrl = Trim(elements.appUrl),
                                         !.email = Trim(elements.email)]
               /\ elements' = [elements EXCEPT !.errorMessageHidden = TRUE,
                                               !.sendRequestBtnDisabled = TRUE]
               /\ posts' = posts + 1
               /\ sending' = TRUE
    /\ UNCHANGED <<outcome, checked, order>>
    /\ UNCHANGED <<workerVars, pricingVars, validationVars>>

\* the response is ok and result.success is true: lines 415-422 and finally
ResponseOk ==
    /\ sending
    /\ LET cleared == clearForm(state, showSuccessMessage(elements))
       IN /\ state' = cleared.state
          /\ elements' = [cleared.elements EXCEPT !.sendRequestBtnDisabled = FALSE]
    /\ sending' = FALSE
    /\ outcome' = "ok"
    /\ checked' = {}
    /\ order' = {}
    /\ UNCHANGED <<clicks, posts>>
    /\ UNCHANGED <<workerVars, pricingVars, validationVars>>

\* the submission fails: catch and finally
ResponseFails(kind) ==
    /\ sending
    /\ LET after == onFailure(state, elements)
       IN /\ state' = after.state
          /\ elements' = after.elements
    /\ sending' = FALSE
    /\ outcome' = "failed"
    /\ UNCHANGED <<clicks, posts, checked, order>>
    /\ UNCHANGED <<workerVars, pricingVars, validationVars>>

ClientNext ==
    \/ \E id \in FeatureCards, isChecked \in BOOLEAN : handleFeatureChange(id, isChecked)
    \/ \E id \in ServiceCards, isChecked \in BOOLEAN : handleServiceChange(id, isChecked)
    \/ \E isChecked \in BOOLEAN : handleCustomRequestToggle(isChecked)
    \/ \E text \in CustomTexts : handleCustomRequestInput(text)
    \/ \E text \in UrlTexts : AppUrlInput(text)
    \/ \E text \in EmailTexts : EmailInput(text)
    \/ Click
    \/ ResponseOk
    \/ \E kind \in FailureKinds : ResponseFails(kind)

ClientStart == WorkerInit /\ PricingIdle /\ ValidationIdle /\ ClientInit

SpecClient == ClientStart /\ [][ClientNext]_vars

(***************************************************************************)
(* Properties of the estimate form                                         *)
(***************************************************************************)
\* a step that sends a POST
Posts == posts' = posts + 1
\* the form after a successful submission
Submitted == elements.formHidden /\ ~sending
\* a step in which a submission in flight fails
FailureStep == sending /\ ~sending' /\ outcome' = "failed"
\* a step in which a submission in flight succeeds
SuccessStep == sending /\ ~sending' /\ outcome' = "ok"

\* C15: every payload the form posts passes the server's validation
C15_PostedPayloadPassesServerValidation ==
    [][Posts => PassesValidation(requestData(state'))]_vars

\* C16: a click that passes the form's validation sends one POST and starts
\* the submission; nothing else sends a POST; a successful response hides
\* the form and clears the state; once submitted the form sends nothing and
\* stays submitted; POSTs never outnumber clicks
C16_FormLifecycle ==
    [][/\ posts' \in {posts, posts + 1}
       /\ Posts <=> (/\ clicks' = clicks + 1
                     /\ validateForm(state, elements) = <<>>)
       /\ Posts => ~sending /\ sending' /\ elements'.sendRequestBtnDisabled
       /\ SuccessStep => Submitted' /\ state' = InitialState /\ posts' = posts
       /\ Submitted => Submitted' /\ posts' = posts
       /\ posts' <= clicks']_vars

C16_Witness ==
    Submitted /\ state = InitialState /\ outcome = "ok" /\ posts = 1 /\ clicks = 2

\* C17: a failing submission shows the generic message, enables the button
\* and keeps the form shown; neither the click nor the failure changes the
\* selections or the custom request
SelectionOf(st) ==
    <<st.selectedFeatures, st.selectedServices, st.hasCustomRequest, st.customRequestText>>

C17_FailureReturnsToIdle ==
    [][/\ FailureStep =>
            /\ elements'.errorMessage = <<ErrSubmit>>
            /\ ~elements'.errorMessageHidden
            /\ ~elements'.sendRequestBtnDisabled
            /\ ~elements'.formHidden
            /\ elements'.successMessageHidden
            /\ SelectionOf(state') = SelectionOf(state)
       /\ Posts => SelectionOf(state') = SelectionOf(state)]_vars

\* a resubmission in flight after a failed one
C17_Witness ==
    outcome = "failed" /\ sending /\ posts = 2 /\ state.selectedFeatures # <<>>

\* C18: the server's total for the payload of the current selection is the
\* form's total, plus 250 with a custom request, and the discounts agree;
\* with a selection made, the form's stored and displayed total are that total
C18_ServerTotalMatchesLiveTotal ==
    LET server == calculatePricing(Arr(NamesOfIds(state.selectedFeatures)),
                                   Arr(NamesOfIds(state.selectedServices)),
                                   Bool(state.hasCustomRequest))
        client == calculateEstimate(state)
        base == IF state.hasCustomRequest THEN 250 ELSE 0
    IN /\ server.total = NumV(client.total + base)
       /\ server.discount = NumV(client.discount)
       /\ HasSelections(state) =>
            /\ server.total = NumV(state.totalPrice + base)
            /\ server.discount = NumV(state.featureDiscount)
            /\ elements.totalEstimate =
                 [total |-> state.totalPrice, plus |-> state.hasCustomRequest]

C18_Witness ==
    /\ state.hasCustomRequest
    /\ Len(state.selectedFeatures) = 3
    /\ state.selectedServices # <<>>
    /\ state.featureDiscount = 30

\* C19: the stored price and discount are those of the current selection
C19_PriceNeverStale ==
    /\ state.totalPrice = calculateEstimate(state).total
    /\ state.featureDiscount = calculateEstimate(state).discount

\* C20: each list holds the checked cards of its kind, once each, in the
\* order in which they were checked
InOrderChecked(list, cards) ==
    /\ \A i, j \in 1..Len(list) : i # j => list[i] # list[j]
    /\ Elems(list) = checked \cap cards
    /\ \A i, j \in 1..Len(list) : i < j => <<list[i], list[j]>> \in order

C20_SelectionIsOrderedSet ==
    /\ InOrderChecked(state.selectedFeatures, FeatureCards)
    /\ InOrderChecked(state.selectedServices, ServiceCards)

C20_Witness ==
    /\ state.selectedFeatures = <<"saas", "authentication">>
    /\ state.selectedServices = <<"deployment", "security">>
    /\ outcome = "failed"

(***************************************************************************)
(* Requests in flight together                                             *)
(***************************************************************************)
\* The response a request gets when no other request is in flight: decided
\* by its own method, URL, environment and body and by how its own create
\* call settled
AloneResponse(r) ==
    LET route == Dispatch(req[r].method, req[r].path)
        after == AfterBody(req[r].body, req[r].env)
    IN IF route = "preflight" THEN Preflight
       ELSE IF route = "redirect" THEN Redirect(req[r].origin)
       ELSE IF route = "notAllowed" THEN MethodNotAllowed
       ELSE IF ~after.issue THEN after.resp
       ELSE AfterCreate(caught[r] = NoError, caught[r])

Accepted == {r \in Reqs : Answered(r) /\ resp[r].status = 200}

IndependentState ==
    /\ pricingObj = PRICING
    /\ \A r \in Reqs : Answered(r) => resp[r] = AloneResponse(r)
    /\ \A i \in DOMAIN store : store[i].fields = BuildRecord(DataOf(store[i].by))
    /\ \A r \in Accepted : Cardinality(RecordsOf(r)) = 1
    /\ Len(store) = Cardinality(Accepted)

IndependentStep ==
    /\ pricingObj' = pricingObj
    /\ Len(store') >= Len(store)
    /\ SubSeq(store', 1, Len(store)) = store
    /\ \A q \in Reqs :
        pc'[q] = pc[q] =>
            /\ req'[q] = req[q] /\ resp'[q] = resp[q]
            /\ caught'[q] = caught[q] /\ steps'[q] = steps[q]
            /\ RecordsOf(q)' = RecordsOf(q)

\* C21: requests in flight together do not affect one another: every answer
\* is the one the request gets alone, every record is built from its own
\* request's payload, a step of one request leaves the others and the
\* records already stored as they are, n accepted submissions give n records
\* (identical ones included), and the pricing object is never modified
C21_RequestsAreIndependent == []IndependentState /\ [][IndependentStep]_vars

\* two identical submissions, both accepted, each with its own record
C21_Witness ==
    \E r \in Reqs : \E q \in Reqs :
        /\ r # q /\ r \in Accepted /\ q \in Accepted
        /\ DataOf(r) = DataOf(q)
        /\ Len(store) = 2 /\ store[1].fields = store[2].fields /\ store[1].by # store[2].by

\* the button is disabled for as long as a submission is in flight
DisabledWhileSending == sending <=> elements.sendRequestBtnDisabled

SubmissionStep ==
    /\ Posts => /\ ~sending /\ ~elements.sendRequestBtnDisabled
                /\ sending' /\ elements'.sendRequestBtnDisabled
    /\ (elements.sendRequestBtnDisabled /\ ~elements'.sendRequestBtnDisabled) =>
            (FailureStep \/ SuccessStep)
    /\ (sending /\ ~(FailureStep \/ SuccessStep)) => sending' /\ posts' = posts

\* C22: at most one submission is in flight: the click that posts disables
\* the button in the same step, only the handling of the response or of the
\* failure enables it again, and no POST is sent while one is in flight
C22_OneSubmissionInFlight == []DisabledWhileSending /\ [][SubmissionStep]_vars

\* a second submission in flight, after the first one was handled
C22_Witness ==
    /\ sending /\ elements.sendRequestBtnDisabled
    /\ posts = 2 /\ clicks = 2 /\ outcome = "failed"

\* C23: the discount notice is shown exactly when at least 3 features are
\* selected, and the estimate summary exactly when a feature, a service or
\* the custom request is selected
C23_DisplayMatchesSelection ==
    /\ ~elements.featureDiscountHidden <=>
            Len(state.selectedFeatures) >= pricing.featureDiscountThreshold
    /\ ~elements.estimateSummaryHidden <=>
            (\/ Len(state.selectedFeatures) >= 1
             \/ Len(state.selectedServices) >= 1
             \/ state.hasCustomRequest)

\* the notice went away with the third feature while the summary stayed
C23_Witness ==
    /\ Len(state.selectedFeatures) = 2
    /\ state.featureDiscount = 0 /\ state.totalPrice = 200
    /\ elements.featureDiscountHidden /\ ~elements.estimateSummaryHidden
    /\ outcome = "failed"

====
